---------------------------- MODULE Spec2Model ----------------------------
(***************************************************************************)
(* Poseidon worker (src/worker.js): the two API handlers /api/connect and  *)
(* /api/generate with the database helpers testConnection and executeSQL,  *)
(* and the state machine of the embedded frontend script.                  *)
(*                                                                         *)
(* JavaScript values are records [t, v]: t is the type tag and v the token *)
(* sequence of the value (the tokens of a string, the elements of an       *)
(* array, the digits of a number).  SQL text and the .env text are token   *)
(* sequences as well, so concatenation is \o and a template literal is a   *)
(* concatenation of its literal parts and its interpolated values.         *)
(***************************************************************************)
EXTENDS Integers, Sequences, FiniteSets, TLC

\* ------------------------------------------------------------------ bounds
MaxFeatures == 2        \* longest features array a request carries
MaxWindowCount == 11    \* cap of the per-window request counter of the client
MaxFetches == 2         \* /api/connect requests of the page in flight at once

\* ------------------------------------------------------------- JS values
Undefined == [t |-> "undefined", v |-> <<>>]
Str(toks) == [t |-> "string", v |-> toks]
Arr(elems) == [t |-> "array", v |-> elems]
Num(digits) == [t |-> "number", v |-> <<digits>>]
Obj == [t |-> "object", v |-> <<>>]

\* !x of JavaScript: undefined, the empty string and 0 are falsy
Falsy(x) ==
    \/ x.t = "undefined"
    \/ x.t = "string" /\ x.v = <<>>
    \/ x.t = "number" /\ x.v = <<"0">>

\* x.includes is a function only on arrays and strings
HasIncludes(x) == x.t \in {"array", "string"}

\* x.includes(s): element equality on an array, substring search on a string
includes(x, s) == \E i \in 1..Len(x.v) : x.v[i] = s

\* `${x}` of a template literal
Interpolate(x) == x.v

BoolText(b) == IF b THEN "true" ELSE "false"

\* ------------------------------------------------------- request inputs
CsSupabase == Str(<<"postgresql://", "u", ":", "p", "@", "db", ".", "supabase", ".", "co", ":", "5432", "/", "postgres">>)
CsEvil == Str(<<"postgresql://", "u", ":", "p", "@", "evil", ".", "com", ":", "5432", "/", "db">>)
CsNoAt == Str(<<"localhost", ":", "5432">>)
CsEmpty == Str(<<>>)

ConnectionStrings == {Undefined, CsEmpty, CsSupabase, CsEvil, CsNoAt}

FeatureNames == {"login", "roles", "billing"}

RECURSIVE SeqsUpTo(_, _)
SeqsUpTo(S, n) ==
    IF n = 0 THEN {<<>>}
    ELSE LET shorter == SeqsUpTo(S, n - 1)
         IN  shorter \cup {Append(q, x) : q \in shorter, x \in S}

FeatureArrays == {Arr(q) : q \in SeqsUpTo(FeatureNames, MaxFeatures)}

MalformedFeatures ==
    {Undefined, Str(<<>>), Str(<<"login">>), Str(<<"x", "roles", "y">>), Num("0"), Num("5"), Obj}

FeatureInputs == FeatureArrays \cup MalformedFeatures

\* ------------------------------------------------------- SQL fragments
LoginFragment == <<"CREATE TABLE IF NOT EXISTS users">>

RolesFragment ==
    <<"CREATE TABLE IF NOT EXISTS roles",
      "CREATE TABLE IF NOT EXISTS user_roles",
      "INSERT INTO roles">>

\* generateSQL with the fragments appended in the order the array names them
generateSQLInArrayOrder(features) ==
    LET first(s) == CHOOSE i \in 1..Len(features.v) : features.v[i] = s /\ \A j \in 1..(i - 1) : features.v[j] # s
    IN  IF includes(features, "login") /\ includes(features, "roles") /\ first("roles") < first("login")
        THEN RolesFragment \o LoginFragment
        ELSE (IF includes(features, "login") THEN LoginFragment ELSE <<>>)
                 \o (IF includes(features, "roles") THEN RolesFragment ELSE <<>>)

\* the SQL text the /api/generate handler builds
generateSQL(features) ==
    (IF includes(features, "login") THEN LoginFragment ELSE <<>>)
        \o (IF includes(features, "roles") THEN RolesFragment ELSE <<>>)

\* envContent with ENABLE_ROLES computed from the wrong feature name
envContentRolesFromLogin(connectionString, features) ==
    <<"DATABASE_URL=\"">> \o Interpolate(connectionString) \o <<"\"", "\n">>
        \o <<"ENABLE_LOGIN=", BoolText(includes(features, "login")), "\n">>
        \o <<"ENABLE_ROLES=", BoolText(includes(features, "login")), "\n">>

\* the .env text the /api/generate handler builds
envContent(connectionString, features) ==
    <<"DATABASE_URL=\"">> \o Interpolate(connectionString) \o <<"\"", "\n">>
        \o <<"ENABLE_LOGIN=", BoolText(includes(features, "login")), "\n">>
        \o <<"ENABLE_ROLES=", BoolText(includes(features, "roles")), "\n">>


\* ------------------------------------------------------------ the server
\* The handlers share no variable (worker.js keeps no module-level mutable state
\* and every call builds its own Pool), so the requests are followed one by one.
Reqs == {"r1"}
Conns == {"k1", "k2"}         \* connections a Pool may hand a query to

ConnError == "ECONNREFUSED"
SqlError == "relation does not exist"

VARIABLES
    pc,           \* pc[r]: where the handler of request r stands
    req,          \* req[r]: route and body of request r
    sql,          \* sql[r]: the local `sql` of the /api/generate handler
    result,       \* result[r]: how testConnection / executeSQL ends
    clientHeld,   \* clientHeld[r]: the client of pool.connect() is checked out
    txn,          \* txn[r][k]: transaction state of connection k of r's pool
    pendingOn,    \* pendingOn[r]: connections whose open transaction holds the batch
    committed,    \* committed[r]: the batch is durably applied to the target
    calls,        \* calls[r]: the driver calls made for r, in order
    resp,         \* resp[r]: the HTTP response sent for r
    inWindow,     \* requests the client sent since its current 60 s window began
    ordinal,      \* ordinal[r]: position of r among the requests of its window
    connectionVerified, lastConnectionString, lastGeneratedEnv, lastGeneratedSQL,
    inputValue,   \* connectionStringInput.value
    checked,      \* the checked feature checkboxes
    connMsg,      \* what the connectionMessage element shows
    fetches,      \* fetch() calls of the page that have not settled yet, each with
                  \* its body and, for /api/generate, connectionVerified as it was sent
    verifiedOk,   \* connection strings for which /api/connect answered success:true
    featuresHidden, resultHidden, generateDisabled

serverVars == <<pc, req, sql, result, clientHeld, txn, pendingOn, committed, calls, resp, inWindow, ordinal>>

pageVars == <<connectionVerified, lastConnectionString, lastGeneratedEnv, lastGeneratedSQL, inputValue, checked, connMsg, fetches, verifiedOk, featuresHidden, resultHidden, generateDisabled>>

vars == <<serverVars, pageVars>>

NoReq == [route |-> "none", connectionString |-> Undefined, features |-> Undefined]
NoResult == [kind |-> "none", success |-> FALSE, message |-> ""]
NoResp == [status |-> 0, kind |-> "none", success |-> FALSE, message |-> "", env |-> <<>>, sql |-> <<>>]

Return(ok, msg) == [kind |-> "return", success |-> ok, message |-> msg]
Throw(msg) == [kind |-> "throw", success |-> FALSE, message |-> msg]

\* res.status(code).json({success, message})
Json(code, ok, msg) ==
    [status |-> code, kind |-> "json", success |-> ok, message |-> msg, env |-> <<>>, sql |-> <<>>]

\* what the framework does with a handler whose promise rejects: the request is
\* left without a response, or the default error handler answers 500 with a
\* non-JSON body
Unhandled == {NoResp, [NoResp EXCEPT !.status = 500, !.kind = "html"]}

ServerInit ==
    /\ pc = [r \in Reqs |-> "idle"]
    /\ req = [r \in Reqs |-> NoReq]
    /\ sql = [r \in Reqs |-> <<>>]
    /\ result = [r \in Reqs |-> NoResult]
    /\ clientHeld = [r \in Reqs |-> FALSE]
    /\ txn = [r \in Reqs |-> [k \in Conns |-> "closed"]]
    /\ pendingOn = [r \in Reqs |-> {}]
    /\ committed = [r \in Reqs |-> FALSE]
    /\ calls = [r \in Reqs |-> <<>>]
    /\ resp = [r \in Reqs |-> NoResp]
    /\ inWindow = 0
    /\ ordinal = [r \in Reqs |-> 0]

\* a request reaches the worker: it is one more request of the client's window
Arrive(r, body) ==
    /\ pc[r] = "idle"
    /\ inWindow < MaxWindowCount
    /\ inWindow' = inWindow + 1
    /\ ordinal' = [ordinal EXCEPT ![r] = inWindow + 1]
    /\ req' = [req EXCEPT ![r] = body]

\* 60 seconds have passed since the first request of the window
WindowElapses ==
    /\ inWindow > 0
    /\ inWindow' = 0
    /\ UNCHANGED <<pc, req, sql, result, clientHeld, txn, pendingOn, committed, calls, resp, ordinal>>
    /\ UNCHANGED pageVars

\* app.post('/api/connect'): up to the first await
ConnectArrive(r, cs) ==
    /\ Arrive(r, [route |-> "connect", connectionString |-> cs, features |-> Undefined])
    /\ IF Falsy(cs)
       THEN /\ resp' = [resp EXCEPT ![r] = Json(400, FALSE, "Falta connectionString")]
            /\ pc' = [pc EXCEPT ![r] = "done"]
       ELSE /\ pc' = [pc EXCEPT ![r] = "tc_connect"]
            /\ UNCHANGED resp
    /\ UNCHANGED <<sql, result, clientHeld, txn, pendingOn, committed, calls>>
    /\ UNCHANGED pageVars

\* testConnection: await pool.connect()
TcConnect(r, out) ==
    /\ pc[r] = "tc_connect"
    /\ calls' = [calls EXCEPT ![r] = Append(@, [q |-> <<"connect">>, k |-> "k1", out |-> out])]
    /\ IF out = "ok"
       THEN /\ clientHeld' = [clientHeld EXCEPT ![r] = TRUE]
            /\ pc' = [pc EXCEPT ![r] = "tc_query"]
            /\ UNCHANGED result
       ELSE /\ result' = [result EXCEPT ![r] = Return(FALSE, out)]
            /\ pc' = [pc EXCEPT ![r] = "tc_end"]
            /\ UNCHANGED clientHeld
    /\ UNCHANGED <<req, sql, txn, pendingOn, committed, resp, inWindow, ordinal>>
    /\ UNCHANGED pageVars

\* testConnection: await client.query('SELECT 1'); client.release(); return
TcQuery(r, out) ==
    /\ pc[r] = "tc_query"
    /\ calls' = [calls EXCEPT ![r] = Append(@, [q |-> <<"SELECT 1">>, k |-> "k1", out |-> out])]
    /\ IF out = "ok"
       THEN /\ clientHeld' = [clientHeld EXCEPT ![r] = FALSE]
            /\ result' = [result EXCEPT ![r] = Return(TRUE, "Conexion exitosa")]
       ELSE /\ result' = [result EXCEPT ![r] = Return(FALSE, out)]
            /\ UNCHANGED clientHeld
    /\ pc' = [pc EXCEPT ![r] = "tc_end"]
    /\ UNCHANGED <<req, sql, txn, pendingOn, committed, resp, inWindow, ordinal>>
    /\ UNCHANGED pageVars

\* testConnection: finally { await pool.end() }, then res.json(result) in the
\* handler.  pool.end() settles only once every checked-out client is released.
TcEnd(r) ==
    /\ pc[r] = "tc_end"
    /\ ~clientHeld[r]
    /\ resp' = [resp EXCEPT ![r] = Json(200, result[r].success, result[r].message)]
    /\ pc' = [pc EXCEPT ![r] = "done"]
    /\ UNCHANGED <<req, sql, result, clientHeld, txn, pendingOn, committed, calls, inWindow, ordinal>>
    /\ UNCHANGED pageVars


\* app.post('/api/generate'): up to the first await
GenerateArrive(r, cs, features) ==
    /\ Arrive(r, [route |-> "generate", connectionString |-> cs, features |-> features])
    /\ IF Falsy(cs) \/ Falsy(features)
       THEN /\ resp' = [resp EXCEPT ![r] = Json(400, FALSE, "Faltan datos")]
            /\ pc' = [pc EXCEPT ![r] = "done"]
            /\ UNCHANGED sql
       ELSE IF ~HasIncludes(features)
       THEN \* features.includes is not a function: the handler's promise rejects
            /\ \E u \in Unhandled : resp' = [resp EXCEPT ![r] = u]
            /\ pc' = [pc EXCEPT ![r] = "done"]
            /\ UNCHANGED sql
       ELSE /\ sql' = [sql EXCEPT ![r] = generateSQL(features)]
            /\ pc' = [pc EXCEPT ![r] = "ex_begin"]
            /\ UNCHANGED resp
    /\ UNCHANGED <<result, clientHeld, txn, pendingOn, committed, calls>>
    /\ UNCHANGED pageVars

\* The target database's side of one pool.query(q) that the pool hands to
\* connection k and that ends with `out`: the transaction state of k after it.
TxnAfter(state, q, out) ==
    IF out = ConnError THEN "closed"
    ELSE IF q = "BEGIN" THEN (IF state \in {"closed", "idle"} THEN "open" ELSE state)
    ELSE IF q = "BATCH"
         THEN (IF state = "closed" THEN "idle"
               ELSE IF state = "open" /\ out = SqlError THEN "aborted"
               ELSE state)
    ELSE "idle"

\* the connections whose open transaction holds the batch, after the query
PendingAfter(pending, state, q, k, out, text) ==
    IF out = ConnError THEN pending \ {k}
    ELSE IF q = "BATCH" /\ out = "ok" /\ state = "open" /\ text # <<>> THEN pending \cup {k}
    ELSE IF q \in {"COMMIT", "ROLLBACK"} THEN pending \ {k}
    ELSE pending

\* whether the batch is durably applied after the query: a batch outside a
\* transaction block commits on its own, a COMMIT commits what its connection holds
CommittedAfter(was, pending, state, q, k, out, text) ==
    \/ was
    \/ q = "BATCH" /\ out = "ok" /\ state \in {"closed", "idle"} /\ text # <<>>
    \/ q = "COMMIT" /\ out = "ok" /\ state = "open" /\ k \in pending

QueryText(r, q) == IF q = "BATCH" THEN sql[r] ELSE <<q>>

\* await pool.query(...): the pool hands the query to one of its connections
PoolQuery(r, q, k, out) ==
    /\ calls' = [calls EXCEPT ![r] = Append(@, [q |-> QueryText(r, q), k |-> k, out |-> out])]
    /\ txn' = [txn EXCEPT ![r][k] = TxnAfter(@, q, out)]
    /\ pendingOn' = [pendingOn EXCEPT ![r] = PendingAfter(@, txn[r][k], q, k, out, sql[r])]
    /\ committed' = [committed EXCEPT ![r] = CommittedAfter(@, pendingOn[r], txn[r][k], q, k, out, sql[r])]

\* executeSQL: await pool.query('BEGIN')
ExBegin(r, k, out) ==
    /\ pc[r] = "ex_begin"
    /\ PoolQuery(r, "BEGIN", k, out)
    /\ IF out = "ok"
       THEN pc' = [pc EXCEPT ![r] = "ex_batch"] /\ UNCHANGED result
       ELSE pc' = [pc EXCEPT ![r] = "ex_rollback"] /\ result' = [result EXCEPT ![r] = Throw(out)]
    /\ UNCHANGED <<req, sql, clientHeld, resp, inWindow, ordinal>>
    /\ UNCHANGED pageVars

\* executeSQL: await pool.query(sql)
ExBatch(r, k, out) ==
    /\ pc[r] = "ex_batch"
    /\ PoolQuery(r, "BATCH", k, out)
    /\ IF out = "ok"
       THEN pc' = [pc EXCEPT ![r] = "ex_commit"] /\ UNCHANGED result
       ELSE pc' = [pc EXCEPT ![r] = "ex_rollback"] /\ result' = [result EXCEPT ![r] = Throw(out)]
    /\ UNCHANGED <<req, sql, clientHeld, resp, inWindow, ordinal>>
    /\ UNCHANGED pageVars

\* executeSQL: await pool.query('COMMIT'); return {success: true, ...}
ExCommit(r, k, out) ==
    /\ pc[r] = "ex_commit"
    /\ PoolQuery(r, "COMMIT", k, out)
    /\ IF out = "ok"
       THEN pc' = [pc EXCEPT ![r] = "ex_end"] /\ result' = [result EXCEPT ![r] = Return(TRUE, "Ejecucion exitosa")]
       ELSE pc' = [pc EXCEPT ![r] = "ex_rollback"] /\ result' = [result EXCEPT ![r] = Throw(out)]
    /\ UNCHANGED <<req, sql, clientHeld, resp, inWindow, ordinal>>
    /\ UNCHANGED pageVars

\* executeSQL: catch (error) { await pool.query('ROLLBACK'); return {success: false, ...} }
ExRollback(r, k, out) ==
    /\ pc[r] = "ex_rollback"
    /\ PoolQuery(r, "ROLLBACK", k, out)
    /\ result' = [result EXCEPT ![r] = IF out = "ok" THEN Return(FALSE, @.message) ELSE Throw(out)]
    /\ pc' = [pc EXCEPT ![r] = "ex_end"]
    /\ UNCHANGED <<req, sql, clientHeld, resp, inWindow, ordinal>>
    /\ UNCHANGED pageVars

\* the rest of the /api/generate handler, once executeSQL has ended with `res`
GenerateResponse(r, res) ==
    IF res.kind = "throw" THEN Unhandled
    ELSE IF ~res.success THEN {Json(500, FALSE, res.message)}
    ELSE {[status |-> 200, kind |-> "json", success |-> TRUE,
           message |-> "Base de datos actualizada",
           env |-> envContent(req[r].connectionString, req[r].features),
           sql |-> sql[r]]}

\* executeSQL: finally { await pool.end() }, then the handler responds.
\* Closing a connection discards the transaction left open on it.
ExEnd(r) ==
    /\ pc[r] = "ex_end"
    /\ txn' = [txn EXCEPT ![r] = [k \in Conns |-> "closed"]]
    /\ pendingOn' = [pendingOn EXCEPT ![r] = {}]
    /\ \E out \in GenerateResponse(r, result[r]) : resp' = [resp EXCEPT ![r] = out]
    /\ pc' = [pc EXCEPT ![r] = "done"]
    /\ UNCHANGED <<req, sql, result, clientHeld, committed, calls, inWindow, ordinal>>
    /\ UNCHANGED pageVars

\* the request is over: its slot serves the next request
Finish(r) ==
    /\ pc[r] = "done"
    /\ pc' = [pc EXCEPT ![r] = "idle"]
    /\ req' = [req EXCEPT ![r] = NoReq]
    /\ sql' = [sql EXCEPT ![r] = <<>>]
    /\ result' = [result EXCEPT ![r] = NoResult]
    /\ committed' = [committed EXCEPT ![r] = FALSE]
    /\ calls' = [calls EXCEPT ![r] = <<>>]
    /\ resp' = [resp EXCEPT ![r] = NoResp]
    /\ ordinal' = [ordinal EXCEPT ![r] = 0]
    /\ UNCHANGED <<clientHeld, txn, pendingOn, inWindow>>
    /\ UNCHANGED pageVars


\* ------------------------------------------------------ the frontend script
SupabaseTemplate ==
    Str(<<"postgresql://", "postgres", ":", "[PASSWORD]", "@", "db", ".", "[REF]", ".", "supabase", ".", "co", ":", "5432", "/", "postgres">>)

NeonTemplate ==
    Str(<<"postgresql://", "[USER]", ":", "[PASSWORD]", "@", "[HOST]", ".", "neon", ".", "tech", "/", "[DB]", "?sslmode=require">>)

\* what the user may type into the connection string field
TypedInputs == {Str(<<>>), Str(<<" ">>), Str(<<" ">> \o SupabaseTemplate.v \o <<" ">>)}

\* String.prototype.trim
RECURSIVE TrimLeft(_)
TrimLeft(toks) == IF toks # <<>> /\ Head(toks) = " " THEN TrimLeft(Tail(toks)) ELSE toks

RECURSIVE TrimRight(_)
TrimRight(toks) ==
    IF toks # <<>> /\ toks[Len(toks)] = " " THEN TrimRight(SubSeq(toks, 1, Len(toks) - 1)) ELSE toks

Trim(x) == Str(TrimRight(TrimLeft(x.v)))

\* the checked checkboxes of #featuresSection, in document order
FeatureOrder == <<"login", "roles">>
CheckedValues(boxes) == SelectSeq(FeatureOrder, LAMBDA f : f \in boxes)

\* fetches are told apart by an id only where their requests are equal
FreeId(url, cs, features) ==
    CHOOSE i \in 1..(MaxFetches + 1) :
        \A f \in fetches : ~(f.id = i /\ f.url = url /\ f.connectionString = cs /\ f.features = features)

ConnectFetches == {f \in fetches : f.url = "/api/connect"}
GenerateFetches == {f \in fetches : f.url = "/api/generate"}

PageInit ==
    /\ connectionVerified = FALSE
    /\ lastConnectionString = Str(<<>>)
    /\ lastGeneratedEnv = <<>>
    /\ lastGeneratedSQL = <<>>
    /\ inputValue = Str(<<>>)
    /\ checked = {}
    /\ connMsg = "hidden"
    /\ fetches = {}
    /\ verifiedOk = {}
    /\ featuresHidden = TRUE
    /\ resultHidden = TRUE
    /\ generateDisabled = FALSE

\* the user edits the connection string field
TypeInput(v) ==
    /\ inputValue # v
    /\ inputValue' = v
    /\ UNCHANGED <<connectionVerified, lastConnectionString, lastGeneratedEnv, lastGeneratedSQL, checked, connMsg, fetches, verifiedOk, featuresHidden, resultHidden, generateDisabled>>
    /\ UNCHANGED serverVars

\* providerSelect 'change' listener
ProviderChange(provider) ==
    /\ inputValue' = IF provider = "supabase" THEN SupabaseTemplate
                     ELSE IF provider = "neon" THEN NeonTemplate
                     ELSE inputValue
    /\ inputValue' # inputValue
    /\ UNCHANGED <<connectionVerified, lastConnectionString, lastGeneratedEnv, lastGeneratedSQL, checked, connMsg, fetches, verifiedOk, featuresHidden, resultHidden, generateDisabled>>
    /\ UNCHANGED serverVars

\* the user ticks or unticks a feature checkbox
ToggleFeature(f) ==
    /\ checked' = IF f \in checked THEN checked \ {f} ELSE checked \cup {f}
    /\ UNCHANGED <<connectionVerified, lastConnectionString, lastGeneratedEnv, lastGeneratedSQL, inputValue, connMsg, fetches, verifiedOk, featuresHidden, resultHidden, generateDisabled>>
    /\ UNCHANGED serverVars

\* testBtn 'click' listener, up to the await of fetch('/api/connect')
VerifyClick ==
    LET connectionString == Trim(inputValue) IN
    /\ IF Falsy(connectionString)
       THEN /\ connMsg' = "Ingresa una cadena de conexion"
            /\ UNCHANGED fetches
       ELSE /\ Cardinality(ConnectFetches) < MaxFetches
            /\ connMsg' = "Verificando conexion..."
            /\ fetches' = fetches \cup
                  {[id |-> FreeId("/api/connect", connectionString, <<>>), url |-> "/api/connect",
                    connectionString |-> connectionString, features |-> <<>>, verified |-> FALSE]}
    /\ UNCHANGED <<connectionVerified, lastConnectionString, lastGeneratedEnv, lastGeneratedSQL, inputValue, checked, verifiedOk, featuresHidden, resultHidden, generateDisabled>>
    /\ UNCHANGED serverVars

\* VerifySettled reading the field again instead of the string it sent
VerifySettledReadsInput(f, outcome) ==
    /\ f \in ConnectFetches
    /\ fetches' = fetches \ {f}
    /\ IF outcome = "success"
       THEN /\ connMsg' = "Conexion exitosa. Listo para generar."
            /\ connectionVerified' = TRUE
            /\ lastConnectionString' = Trim(inputValue)
            /\ featuresHidden' = FALSE
            /\ verifiedOk' = verifiedOk \cup {f.connectionString}
       ELSE /\ connMsg' = (IF outcome = "failure" THEN "Error" ELSE "Error de red")
            /\ connectionVerified' = FALSE
            /\ featuresHidden' = TRUE
            /\ UNCHANGED <<lastConnectionString, verifiedOk>>
    /\ UNCHANGED <<lastGeneratedEnv, lastGeneratedSQL, inputValue, checked, resultHidden, generateDisabled>>
    /\ UNCHANGED serverVars

\* testBtn 'click' listener, after the await: data.success, !data.success, or
\* the catch block (the fetch or response.json() rejected)
VerifySettled(f, outcome) ==
    /\ f \in ConnectFetches
    /\ fetches' = fetches \ {f}
    /\ IF outcome = "success"
       THEN /\ connMsg' = "Conexion exitosa. Listo para generar."
            /\ connectionVerified' = TRUE
            /\ lastConnectionString' = f.connectionString
            /\ featuresHidden' = FALSE
            /\ verifiedOk' = verifiedOk \cup {f.connectionString}
       ELSE /\ connMsg' = (IF outcome = "failure" THEN "Error" ELSE "Error de red")
            /\ connectionVerified' = FALSE
            /\ featuresHidden' = TRUE
            /\ UNCHANGED <<lastConnectionString, verifiedOk>>
    /\ UNCHANGED <<lastGeneratedEnv, lastGeneratedSQL, inputValue, checked, resultHidden, generateDisabled>>
    /\ UNCHANGED serverVars

\* generateBtn 'click' listener, up to the await of fetch('/api/generate');
\* a disabled button dispatches no click
GenerateClick ==
    LET features == CheckedValues(checked) IN
    /\ ~generateDisabled
    /\ IF ~connectionVerified \/ Len(features) = 0
       THEN UNCHANGED <<fetches, generateDisabled>>
       ELSE /\ generateDisabled' = TRUE
            /\ fetches' = fetches \cup
                  {[id |-> FreeId("/api/generate", lastConnectionString, features), url |-> "/api/generate",
                    connectionString |-> lastConnectionString, features |-> features,
                    verified |-> connectionVerified]}
    /\ UNCHANGED <<connectionVerified, lastConnectionString, lastGeneratedEnv, lastGeneratedSQL, inputValue, checked, connMsg, verifiedOk, featuresHidden, resultHidden>>
    /\ UNCHANGED serverVars

\* generateBtn 'click' listener, after the await
GenerateSettled(f, outcome) ==
    /\ f \in GenerateFetches
    /\ fetches' = fetches \ {f}
    /\ IF outcome = "success"
       THEN /\ lastGeneratedEnv' = envContent(f.connectionString, Arr(f.features))
            /\ lastGeneratedSQL' = generateSQL(Arr(f.features))
            /\ resultHidden' = FALSE
            /\ featuresHidden' = TRUE
       ELSE UNCHANGED <<lastGeneratedEnv, lastGeneratedSQL, resultHidden, featuresHidden>>
    /\ generateDisabled' = FALSE
    /\ UNCHANGED <<connectionVerified, lastConnectionString, inputValue, checked, connMsg, verifiedOk>>
    /\ UNCHANGED serverVars

\* resetBtn 'click' listener
ResetClick ==
    /\ connectionVerified' = FALSE
    /\ lastConnectionString' = Str(<<>>)
    /\ lastGeneratedEnv' = <<>>
    /\ lastGeneratedSQL' = <<>>
    /\ inputValue' = Str(<<>>)
    /\ checked' = {}
    /\ featuresHidden' = TRUE
    /\ resultHidden' = TRUE
    /\ connMsg' = ""
    /\ UNCHANGED <<fetches, verifiedOk, generateDisabled>>
    /\ UNCHANGED serverVars

\* ------------------------------------------------------- specifications
Init == ServerInit /\ PageInit

Next ==
    \/ WindowElapses
    \/ \E r \in Reqs, cs \in ConnectionStrings : ConnectArrive(r, cs)
    \/ \E r \in Reqs, out \in {"ok", ConnError} : TcConnect(r, out)
    \/ \E r \in Reqs, out \in {"ok", ConnError, SqlError} : TcQuery(r, out)
    \/ \E r \in Reqs : TcEnd(r)
    \/ \E r \in Reqs, cs \in ConnectionStrings, f \in FeatureInputs : GenerateArrive(r, cs, f)
    \/ \E r \in Reqs, k \in Conns, out \in {"ok", ConnError} : ExBegin(r, k, out)
    \/ \E r \in Reqs, k \in Conns, out \in {"ok", ConnError, SqlError} : ExBatch(r, k, out)
    \/ \E r \in Reqs, k \in Conns, out \in {"ok", ConnError} : ExCommit(r, k, out)
    \/ \E r \in Reqs, k \in Conns, out \in {"ok", ConnError} : ExRollback(r, k, out)
    \/ \E r \in Reqs : ExEnd(r)
    \/ \E r \in Reqs : Finish(r)

\* the worker serving requests
Spec == Init /\ [][Next]_vars

Outcomes == {"success", "failure", "error"}

PageNext ==
    \/ \E v \in TypedInputs : TypeInput(v)
    \/ \E p \in {"supabase", "neon", "custom"} : ProviderChange(p)
    \/ \E f \in {"login", "roles"} : ToggleFeature(f)
    \/ VerifyClick
    \/ \E f \in fetches, o \in Outcomes : VerifySettled(f, o)
    \/ GenerateClick
    \/ \E f \in fetches, o \in Outcomes : GenerateSettled(f, o)
    \/ ResetClick

\* the page in the browser, its requests answered in any order
SpecPage == Init /\ [][PageNext]_vars


\* ------------------------------------------- the documented request checks
\* isHostAllowed and checkRateLimit as the specification describes them; the
\* handlers of worker.js call neither.
AllowedSuffixes == {<<"supabase", ".", "co">>, <<"neon", ".", "tech">>}

LowerCase(tok) ==
    CASE tok = "SUPABASE" -> "supabase"
      [] tok = "CO" -> "co"
      [] tok = "NEON" -> "neon"
      [] tok = "TECH" -> "tech"
      [] OTHER -> tok

\* the tokens between the first '@' and the next ':' or '/'
ExtractHost(toks) ==
    IF \A i \in 1..Len(toks) : toks[i] # "@" THEN <<>>
    ELSE LET at == CHOOSE i \in 1..Len(toks) : toks[i] = "@" /\ \A j \in 1..(i - 1) : toks[j] # "@"
             stops == {i \in (at + 1)..Len(toks) : toks[i] \in {":", "/"}}
             last == IF stops = {} THEN Len(toks)
                     ELSE (CHOOSE i \in stops : \A j \in stops : i <= j) - 1
         IN  [i \in 1..(last - at) |-> LowerCase(toks[at + i])]

EndsWith(host, suffix) ==
    /\ Len(suffix) <= Len(host)
    /\ SubSeq(host, Len(host) - Len(suffix) + 1, Len(host)) = suffix

isHostAllowed(connectionString, suffixes) ==
    LET host == ExtractHost(connectionString.v)
    IN  host # <<>> /\ \E suffix \in suffixes : EndsWith(host, suffix)

\* --------------------------------------------------------------- claims
Generate(r) == req[r].route = "generate"
Connect(r) == req[r].route = "connect"
Answered(r) == pc[r] = "done"
IsArray(x) == x.t = "array"
Elements(x) == {x.v[i] : i \in 1..Len(x.v)}
Failures(r) == {calls[r][i].out : i \in 1..Len(calls[r])} \ {"ok"}

\* a request the documented checks let through: within the rate limit, with
\* an allowed host and, for /api/generate, an array naming a known feature
WellFormed(r) ==
    /\ req[r].route \in {"connect", "generate"}
    /\ ordinal[r] <= 10
    /\ ~Falsy(req[r].connectionString)
    /\ isHostAllowed(req[r].connectionString, AllowedSuffixes)
    /\ Generate(r) =>
           IsArray(req[r].features) /\ Elements(req[r].features) \cap {"login", "roles"} # {}

\* C1: the 11th request of a client within 60 seconds of its first is denied
\* with 429 and success:false, and no database connection is opened for it.
C1_EleventhRequestDenied ==
    \A r \in Reqs :
        ( /\ ordinal[r] > 10
          /\ ~Falsy(req[r].connectionString)
          /\ Generate(r) => IsArray(req[r].features) ) =>
            /\ calls[r] = <<>>
            /\ Answered(r) => resp[r].status = 429 /\ ~resp[r].success

\* C2: a request whose connection string names a host outside the allowlist,
\* or no '@host' at all, is answered 403 with success:false and neither
\* testConnection nor executeSQL is invoked for it.
C2_DisallowedHostRejected ==
    \A r \in Reqs :
        ( /\ req[r].route \in {"connect", "generate"}
          /\ ordinal[r] <= 10
          /\ ~Falsy(req[r].connectionString)
          /\ Generate(r) => IsArray(req[r].features)
          /\ ~isHostAllowed(req[r].connectionString, AllowedSuffixes) ) =>
            /\ calls[r] = <<>>
            /\ Answered(r) => resp[r].status = 403 /\ ~resp[r].success

\* C3: a /api/generate request whose feature list holds neither 'login' nor
\* 'roles' yields the empty SQL, is rejected with 400, and executeSQL is
\* never called for it.
C3_EmptySqlRejected ==
    \A r \in Reqs :
        ( /\ Generate(r)
          /\ ordinal[r] <= 10
          /\ isHostAllowed(req[r].connectionString, AllowedSuffixes)
          /\ IsArray(req[r].features)
          /\ Elements(req[r].features) \cap {"login", "roles"} = {} ) =>
            /\ sql[r] = <<>>
            /\ calls[r] = <<>>
            /\ Answered(r) => resp[r].status = 400

\* C4: a /api/generate request with a missing or malformed field (no
\* connectionString, no features, features not an array) is answered 400 with
\* success:false and a message, and no SQL is executed for it.
C4_MalformedBodyRejected ==
    \A r \in Reqs :
        ( /\ Generate(r)
          /\ ordinal[r] <= 10
          /\ Falsy(req[r].connectionString) \/ ~IsArray(req[r].features) ) =>
            /\ calls[r] = <<>>
            /\ Answered(r) =>
                /\ resp[r].status = 400 /\ resp[r].kind = "json"
                /\ ~resp[r].success /\ resp[r].message # ""

\* C5: when any step of the execution fails, executeSQL does not end by
\* throwing and the caller receives 500 {success:false, message} carrying
\* the database error message.
C5_ExecutionFailureIs500 ==
    \A r \in Reqs :
        (Generate(r) /\ WellFormed(r) /\ Failures(r) # {}) =>
            /\ pc[r] \in {"ex_end", "done"} => result[r].kind = "return"
            /\ Answered(r) =>
                /\ resp[r].status = 500 /\ resp[r].kind = "json"
                /\ ~resp[r].success /\ resp[r].message \in Failures(r)

\* C6: on every path of testConnection the client is released before
\* pool.end() is awaited, so pool.end() completes, the handler is never left
\* waiting, and the request is answered 200 with the outcome of the test.
C6_ConnectAlwaysAnswered ==
    \A r \in Reqs :
        /\ (WellFormed(r) /\ pc[r] = "tc_end") => ~clientHeld[r] /\ ENABLED TcEnd(r)
        /\ (Connect(r) /\ WellFormed(r) /\ Answered(r)) =>
            /\ resp[r].status = 200 /\ resp[r].kind = "json"
            /\ resp[r].success <=> Failures(r) = {}
            /\ ~resp[r].success => resp[r].message \in Failures(r)

\* the SQL of a set of recognized features: login fragment, then roles fragment
SqlOfSet(S) ==
    CASE S = {} -> <<>>
      [] S = {"login"} -> LoginFragment
      [] S = {"roles"} -> RolesFragment
      [] S = {"login", "roles"} -> LoginFragment \o RolesFragment

\* C7: the SQL built by /api/generate depends only on the set of recognized
\* features of the features array: the login fragment if 'login' is in it,
\* then the roles fragment if 'roles' is in it, whatever the order and the
\* duplicates of the array; nothing else of the request enters the SQL, and
\* that text is what is sent to the database and what is returned.
C7_SqlIsFunctionOfFeatureSet ==
    \A r \in Reqs :
        (Generate(r) /\ ~Falsy(req[r].connectionString) /\ IsArray(req[r].features)) =>
            LET expected == SqlOfSet(Elements(req[r].features) \cap {"login", "roles"})
            IN  /\ sql[r] = expected
                /\ \A i \in 1..Len(calls[r]) :
                       calls[r][i].q \in {<<"BEGIN">>, <<"COMMIT">>, <<"ROLLBACK">>, expected}
                /\ (Answered(r) /\ resp[r].status = 200) => resp[r].sql = expected

\* C7 witness: an array naming roles before login was executed and answered
\* with the login fragment first
C7_Witness ==
    \E r \in Reqs :
        /\ Answered(r) /\ resp[r].status = 200
        /\ req[r].features = Arr(<<"roles", "login">>)
        /\ resp[r].sql = LoginFragment \o RolesFragment

IsPartOf(fragment, text) == \A i \in 1..Len(fragment) : \E j \in 1..Len(text) : text[j] = fragment[i]

\* C8: in every successful /api/generate response the env text is
\* DATABASE_URL="<connectionString>" followed by ENABLE_LOGIN and ENABLE_ROLES,
\* each true exactly when its feature is an element of the feature list and
\* exactly when its fragment is part of the returned sql, and the returned
\* sql is the text that was executed.
C8_EnvReflectsFeatures ==
    \A r \in Reqs :
        (Generate(r) /\ Answered(r) /\ resp[r].success /\ IsArray(req[r].features)) =>
            LET login == "login" \in Elements(req[r].features)
                roles == "roles" \in Elements(req[r].features)
            IN  /\ resp[r].status = 200
                /\ resp[r].env = <<"DATABASE_URL=\"">> \o req[r].connectionString.v
                       \o <<"\"", "\n", "ENABLE_LOGIN=", BoolText(login), "\n",
                            "ENABLE_ROLES=", BoolText(roles), "\n">>
                /\ login <=> IsPartOf(LoginFragment, resp[r].sql)
                /\ roles <=> IsPartOf(RolesFragment, resp[r].sql)
                /\ Len(calls[r]) = 3
                /\ calls[r][1].q = <<"BEGIN">>
                /\ calls[r][2].q = resp[r].sql
                /\ calls[r][3].q = <<"COMMIT">>

\* C8 witness: a successful response for the feature list ["login"]
C8_Witness ==
    \E r \in Reqs :
        /\ Generate(r) /\ Answered(r) /\ resp[r].success
        /\ req[r].features = Arr(<<"login">>)
        /\ req[r].connectionString = CsSupabase
        /\ resp[r].sql = LoginFragment

\* C9: the batch is applied all-or-nothing for any assignment of the
\* pool.query calls to pooled connections: a reported failure (500) leaves
\* nothing of the batch applied and a reported success leaves all of it
\* committed.
C9_BatchAllOrNothing ==
    \A r \in Reqs :
        (Generate(r) /\ WellFormed(r) /\ Answered(r)) =>
            /\ resp[r].status = 500 => ~committed[r]
            /\ resp[r].success => committed[r]

\* C10: the page sends /api/generate only while connectionVerified is true,
\* with a non-empty connection string for which /api/connect answered
\* success:true; a failed or errored verify and a Reset leave
\* connectionVerified false.
C10_GenerateOnlyForVerifiedString ==
    /\ \A f \in GenerateFetches :
           /\ f.verified
           /\ f.connectionString.t = "string" /\ f.connectionString.v # <<>>
           /\ f.connectionString \in verifiedOk
    /\ connectionVerified =>
           lastConnectionString.v # <<>> /\ lastConnectionString \in verifiedOk
    /\ connMsg \in {"Error", "Error de red", ""} => ~connectionVerified

\* C10 witness: a generate request is in flight for one string while the
\* field holds another and a later, overlapping verify has failed
C10_Witness ==
    \E f \in GenerateFetches :
        /\ connMsg = "Error"
        /\ ~connectionVerified
        /\ Trim(inputValue) # f.connectionString
        /\ ConnectFetches # {}

=============================================================================
